---------------------------- MODULE Spec2Model ----------------------------
(***************************************************************************)
(* The checkpoint registry of src/checkpoints/checkpoints.cpp: the ordered *)
(* map m_points from block height to block hash, the operations that fill  *)
(* it (add_checkpoint, init_default_checkpoints, load_checkpoints_from_json,*)
(* load_checkpoints_from_dns, load_new_checkpoints) and the queries on it  *)
(* (is_in_checkpoint_zone, check_block, is_alternative_block_allowed,      *)
(* get_max_height, check_for_conflicts).                                   *)
(*                                                                         *)
(* A hash string is a sequence of one-character strings; a crypto::hash is *)
(* a sequence of HASH_SIZE bytes.  The variable last records the most      *)
(* recent call: its arguments, its results and the store it started from.  *)
(***************************************************************************)
EXTENDS Integers, Sequences, FiniteSets, TLC

VARIABLES m_points, last, ever

vars == <<m_points, last, ever>>

-----------------------------------------------------------------------------
(* Bounds of the model. *)

\* Longest document (number of hashlines) handed to the loader.
MaxDocLen == 2

-----------------------------------------------------------------------------
(* Program constants. *)

\* sizeof(crypto::hash): the pod that hex_to_pod fills.
HASH_SIZE == 32

\* Heights are uint64_t; the code does no arithmetic on them, only compares
\* them.  TLC's integers end at 2^31 - 1, which stands for the top of the
\* range.
HEIGHT_MAX == 2147483647

\* enum network_type, as switched over by init_default_checkpoints.
Networks == {"MAINNET", "TESTNET", "STAGENET", "FAKECHAIN", "UNDEFINED"}

\* The MAINNET table of init_default_checkpoints, in source order (built
\* without EVO_ENABLE_INTEGRATION_TEST_HOOKS).
MainnetCheckpoints ==
    <<
       [height |-> 0, hash |-> <<"c","1","0","6","e","b","a","d","6","4","6","e","2","d","c","0","f","9","a","b","9","6","7","4","1","b","2","c","3","2","0","d","3","4","3","5","b","4","3","d","6","f","6","f","9","6","6","0","b","1","f","3","1","8","f","3","3","a","7","6","4","a","d","2">>],
       [height |-> 5, hash |-> <<"4","0","b","c","c","d","d","5","c","e","6","3","1","f","0","c","c","9","5","9","b","b","8","b","f","7","d","3","a","f","0","0","c","6","b","a","e","7","d","9","3","c","1","a","2","a","9","c","d","c","f","0","d","7","3","f","b","7","7","1","b","8","a","0">>],
       [height |-> 10, hash |-> <<"4","5","f","7","a","3","9","a","8","6","1","4","5","d","9","7","f","4","1","d","b","b","b","c","5","3","b","4","5","d","c","4","0","e","7","f","7","1","c","d","8","2","a","6","3","1","c","8","d","7","d","2","8","a","7","e","2","9","d","6","a","9","4","c">>],
       [height |-> 14, hash |-> <<"3","c","f","3","d","8","e","0","6","6","b","e","e","9","0","8","6","e","4","a","e","8","b","8","e","7","e","9","d","a","a","2","1","4","5","6","5","f","c","6","8","1","9","e","e","4","5","8","c","4","4","f","d","a","b","c","4","9","7","0","9","1","b","c">>],
       [height |-> 18, hash |-> <<"8","b","0","6","4","a","0","7","6","d","3","6","5","3","2","d","3","5","e","a","e","5","9","5","7","9","8","0","2","1","9","7","3","0","6","8","d","6","1","b","8","9","3","e","5","e","c","6","f","2","b","0","7","b","c","c","d","8","c","5","4","b","3","2">>],
       [height |-> 22, hash |-> <<"7","b","1","2","f","a","c","4","0","e","a","6","a","4","2","5","0","e","c","5","d","6","b","6","f","9","2","6","d","5","b","7","5","b","5","5","9","b","6","e","6","d","5","f","0","f","8","1","3","2","3","d","6","0","9","5","e","b","a","e","0","7","7","b">>],
       [height |-> 26, hash |-> <<"9","0","3","3","f","8","1","6","a","d","4","6","1","3","6","e","3","9","0","e","6","f","b","a","f","e","e","9","6","2","f","f","6","1","6","c","d","6","6","4","4","5","e","d","6","2","b","8","6","4","4","7","b","2","0","f","e","b","5","b","7","4","e","d">>],
       [height |-> 30, hash |-> <<"7","a","2","2","d","0","1","f","5","1","8","2","8","0","d","5","5","d","b","3","b","6","2","7","6","7","7","5","7","9","4","b","4","4","7","c","5","2","d","4","7","c","e","7","1","7","0","c","a","6","e","d","7","e","7","9","5","9","d","f","9","1","e","8">>],
       [height |-> 35, hash |-> <<"6","9","4","5","6","5","f","2","d","4","1","6","0","9","2","5","2","0","f","3","e","c","0","3","5","7","8","3","9","8","3","b","6","1","c","4","2","e","2","2","c","6","c","7","4","7","5","5","0","e","e","7","2","c","4","e","9","c","4","f","3","b","3","c">>],
       [height |-> 38, hash |-> <<"4","d","2","b","2","8","f","a","6","d","b","6","b","f","2","4","2","4","4","5","4","6","0","e","5","a","9","e","c","c","0","1","2","d","4","e","6","b","6","9","a","3","e","4","3","6","5","b","8","a","c","7","f","5","b","a","1","1","e","e","4","5","5","9">>],
       [height |-> 40, hash |-> <<"9","3","c","c","7","b","0","4","a","d","5","3","d","f","3","c","a","a","1","e","9","d","d","2","5","1","e","c","7","1","1","e","7","7","7","2","b","8","e","d","c","f","5","0","2","1","4","7","4","6","9","7","8","c","3","f","0","8","4","2","5","8","e","0">>],
       [height |-> 45, hash |-> <<"9","5","d","c","e","1","c","3","a","9","e","e","4","7","c","b","2","b","f","8","c","c","5","6","7","3","0","f","b","4","d","5","e","b","f","4","e","a","3","a","e","f","9","e","d","b","f","7","4","4","2","f","9","6","1","e","5","c","0","0","0","b","5","5">>],
       [height |-> 50, hash |-> <<"c","4","7","5","b","c","8","0","a","3","6","6","2","3","a","9","4","1","9","4","5","3","5","3","f","6","9","0","0","2","5","c","a","a","d","5","d","b","9","d","f","2","0","3","5","a","4","4","b","7","9","3","1","a","2","1","e","3","2","c","9","5","4","6">>],
       [height |-> 60, hash |-> <<"0","5","9","3","6","f","6","6","4","1","5","8","a","f","c","7","d","3","5","f","9","a","e","1","a","1","a","f","c","6","d","9","c","7","9","d","e","9","6","d","c","9","a","9","e","2","f","0","3","9","7","c","1","2","6","b","a","d","c","d","b","3","7","d">>],
       [height |-> 66, hash |-> <<"c","1","f","1","d","a","7","a","5","0","7","e","4","3","9","7","c","6","d","4","e","9","a","7","c","4","2","e","3","7","9","b","a","f","b","c","e","3","3","f","8","3","a","c","9","d","9","5","a","e","a","1","4","2","e","0","f","2","9","4","0","6","9","4">>],
       [height |-> 69, hash |-> <<"1","5","4","1","3","7","a","5","1","d","e","b","f","b","b","4","6","4","9","4","f","5","3","1","9","7","4","9","e","9","3","c","8","8","a","a","a","2","b","1","4","a","f","2","7","f","e","a","e","8","3","3","6","9","6","2","a","1","4","6","5","f","d","5">>],
       [height |-> 70, hash |-> <<"2","8","9","0","8","e","0","6","1","2","9","e","5","c","e","8","d","a","5","f","3","3","f","0","a","0","c","b","8","4","b","d","0","7","b","e","2","8","b","1","7","b","8","5","9","7","f","1","7","a","c","0","b","f","0","6","0","a","e","3","b","e","4","c">>],
       [height |-> 71, hash |-> <<"8","5","5","9","1","8","4","e","3","f","b","4","e","2","1","3","7","7","4","2","9","f","e","c","6","c","0","f","5","0","d","b","c","0","b","3","e","c","6","7","5","9","8","6","0","3","7","2","4","2","c","6","0","a","5","5","f","6","c","b","6","a","5","6">>],
       [height |-> 72, hash |-> <<"c","3","c","3","b","1","a","2","9","d","7","0","c","4","b","2","b","7","b","2","c","a","e","8","2","7","2","b","b","b","6","3","f","f","3","3","e","7","6","b","1","1","9","8","7","a","e","c","0","5","2","8","6","d","0","1","7","0","7","e","e","a","2","a">>],
       [height |-> 78, hash |-> <<"1","6","a","f","4","0","9","f","1","d","8","c","a","1","8","3","b","5","6","5","f","8","a","2","1","1","c","d","7","8","5","e","4","5","8","9","2","c","5","1","b","3","b","1","4","b","f","9","8","8","2","5","5","9","1","9","0","9","e","d","3","d","e","0">>],
       [height |-> 25416, hash |-> <<"6","b","c","8","e","5","5","9","8","0","9","8","e","3","7","4","3","f","1","a","0","9","2","e","5","d","a","3","0","0","f","3","e","f","6","1","b","e","d","6","5","2","3","a","7","9","3","d","5","a","7","9","c","4","6","2","8","1","3","b","e","f","5","7">>],
       [height |-> 25417, hash |-> <<"3","0","b","8","d","1","f","e","5","5","2","3","5","b","b","4","3","c","a","a","4","0","5","a","6","4","e","9","7","a","6","3","c","f","b","1","8","4","3","1","2","2","e","1","c","d","7","5","6","d","d","b","a","c","e","8","8","e","4","d","f","a","a","a">>]
    >>

\* The switch with the break of case UNDEFINED missing: it falls through to
\* case MAINNET.
DefaultCheckpointsFallThrough(nettype) ==
    IF nettype \in {"UNDEFINED", "MAINNET"} THEN MainnetCheckpoints ELSE <<>>

\* The hashlines init_default_checkpoints adds for a network: the switch.
DefaultCheckpoints(nettype) ==
    IF nettype = "MAINNET" THEN MainnetCheckpoints ELSE <<>>

-----------------------------------------------------------------------------
(* epee::string_tools::hex_to_pod and crypto::hash. *)

LowerHex == <<"0","1","2","3","4","5","6","7","8","9","a","b","c","d","e","f">>
UpperHex == <<"0","1","2","3","4","5","6","7","8","9","A","B","C","D","E","F">>

\* The hex digits of either case, each with its value.
HexDigits ==
    [c \in {LowerHex[i] : i \in 1..16} \cup {UpperHex[i] : i \in 1..16} |->
       IF \E i \in 1..16 : LowerHex[i] = c
       THEN (CHOOSE i \in 1..16 : LowerHex[i] = c) - 1
       ELSE (CHOOSE i \in 1..16 : UpperHex[i] = c) - 1]

\* The value of a hex digit of either case; 255 for any other character.
HexDigitValue(c) == IF c \in DOMAIN HexDigits THEN HexDigits[c] ELSE 255

\* crypto::null_hash: HASH_SIZE zero bytes.
null_hash == [i \in 1..HASH_SIZE |-> 0]

\* hex_to_pod(hex_str, h): succeeds iff hex_str is exactly 2 * HASH_SIZE hex
\* digits, and then h is the bytes they spell; otherwise h is left as it was.
hex_to_pod(hex_str) ==
    IF /\ Len(hex_str) = 2 * HASH_SIZE
       /\ \A i \in 1..Len(hex_str) : HexDigitValue(hex_str[i]) # 255
    THEN [r |-> TRUE,
          h |-> [i \in 1..HASH_SIZE |->
                   16 * HexDigitValue(hex_str[2 * i - 1])
                      + HexDigitValue(hex_str[2 * i])]]
    ELSE [r |-> FALSE, h |-> null_hash]

\* pod_to_hex(h): the 2 * HASH_SIZE lowercase hex digits of the bytes of h,
\* high digit first.
pod_to_hex(h) ==
    [i \in 1..(2 * HASH_SIZE) |->
       IF i % 2 = 1
       THEN LowerHex[(h[(i + 1) \div 2] \div 16) + 1]
       ELSE LowerHex[(h[i \div 2] % 16) + 1]]

-----------------------------------------------------------------------------
(* std::map<uint64_t, crypto::hash>: a function from its keys, iterated in *)
(* ascending key order.  An iterator is a position 1..size, end() is       *)
(* size + 1.                                                               *)

EmptyMap == [k \in {} |-> null_hash]

RECURSIVE SortedSeq(_)
SortedSeq(S) ==
    IF S = {} THEN <<>>
    ELSE LET x == CHOOSE x \in S : \A y \in S : x <= y
         IN  <<x>> \o SortedSeq(S \ {x})

\* The keys of the map in iteration order.
Keys(m) == SortedSeq(DOMAIN m)

map_begin(m) == 1
map_end(m) == Cardinality(DOMAIN m) + 1
map_empty(m) == DOMAIN m = {}
map_count(m, k) == IF k \in DOMAIN m THEN 1 ELSE 0

\* m.find(k): the position of key k, or end().
map_find(m, k) ==
    LET keys == Keys(m)
    IN  IF \E i \in 1..Len(keys) : keys[i] = k
        THEN CHOOSE i \in 1..Len(keys) : keys[i] = k
        ELSE map_end(m)

\* m.upper_bound(k): the first position whose key is greater than k, or end().
map_upper_bound(m, k) ==
    LET keys == Keys(m)
        gt == {i \in 1..Len(keys) : keys[i] > k}
    IN  IF gt = {} THEN map_end(m)
        ELSE CHOOSE i \in gt : \A j \in gt : i <= j

\* m[k] = v
map_assign(m, k, v) ==
    [x \in DOMAIN m \cup {k} |-> IF x = k THEN v ELSE m[x]]

\* std::max_element(m.begin(), m.end(), first < first): the first position
\* no later key exceeds, or end() when the range is empty.
max_element(m) ==
    LET keys == Keys(m)
    IN  IF Len(keys) = 0 THEN map_end(m)
        ELSE CHOOSE i \in 1..Len(keys) :
               /\ \A j \in 1..Len(keys) : ~(keys[i] < keys[j])
               /\ \A j \in 1..(i - 1) : keys[j] < keys[i]

-----------------------------------------------------------------------------
(* The operations of class checkpoints, as functions of the store.  Each   *)
(* returns the value the method returns and, for a mutating method, the    *)
(* store it leaves.  CHECK_AND_ASSERT_MES(expr, false, msg) returns false   *)
(* from the enclosing method when expr is false; ADD_CHECKPOINT(h, hash)   *)
(* is CHECK_AND_ASSERT(add_checkpoint(h, hash), false).                    *)

\* add_checkpoint as it would be with the assignment placed before the
\* conflict test: a conflicting add fails, and has overwritten the entry.
AddCheckpointAssignFirst(m, height, hash_str) ==
    LET p == hex_to_pod(hash_str)
    IN  IF ~p.r THEN [ret |-> FALSE, points |-> m]
        ELSE IF map_count(m, height) # 0 /\ ~(p.h = m[height])
        THEN [ret |-> FALSE, points |-> map_assign(m, height, p.h)]
        ELSE [ret |-> TRUE, points |-> map_assign(m, height, p.h)]

\* add_checkpoint without the conflict test.
AddCheckpointOverwrite(m, height, hash_str) ==
    LET p == hex_to_pod(hash_str)
    IN  IF ~p.r THEN [ret |-> FALSE, points |-> m]
        ELSE [ret |-> TRUE, points |-> map_assign(m, height, p.h)]

\* add_checkpoint refusing any height the store already holds.
AddCheckpointRejectExisting(m, height, hash_str) ==
    LET p == hex_to_pod(hash_str)
    IN  IF ~p.r THEN [ret |-> FALSE, points |-> m]
        ELSE IF map_count(m, height) # 0
        THEN [ret |-> FALSE, points |-> m]
        ELSE [ret |-> TRUE, points |-> map_assign(m, height, p.h)]

\* add_checkpoint without the return on a hash string that does not parse:
\* h is still null_hash, and is stored.
AddCheckpointUnparsed(m, height, hash_str) ==
    LET p == hex_to_pod(hash_str)
    IN  IF map_count(m, height) # 0 /\ ~(p.h = m[height])
        THEN [ret |-> FALSE, points |-> m]
        ELSE [ret |-> TRUE, points |-> map_assign(m, height, p.h)]

\* checkpoints::add_checkpoint
AddCheckpoint(m, height, hash_str) ==
    LET p == hex_to_pod(hash_str)
    IN  IF ~p.r THEN [ret |-> FALSE, points |-> m]
        ELSE IF map_count(m, height) # 0 /\ ~(p.h = m[height])
        THEN [ret |-> FALSE, points |-> m]
        ELSE [ret |-> TRUE, points |-> map_assign(m, height, p.h)]

\* is_in_checkpoint_zone with < for <=.
IsInCheckpointZoneStrict(m, height) ==
    ~map_empty(m) /\ height < Keys(m)[map_end(m) - 1]

\* checkpoints::is_in_checkpoint_zone
IsInCheckpointZone(m, height) ==
    ~map_empty(m) /\ height <= Keys(m)[map_end(m) - 1]

\* check_block without the comparison of the hashes.
CheckBlockNoCompare(m, height, h) ==
    LET it == map_find(m, height)
    IN  [ret |-> TRUE, is_a_checkpoint |-> it # map_end(m)]

\* checkpoints::check_block(height, h, is_a_checkpoint)
CheckBlock(m, height, h) ==
    LET it == map_find(m, height)
        is_a_checkpoint == it # map_end(m)
    IN  IF ~is_a_checkpoint
        THEN [ret |-> TRUE, is_a_checkpoint |-> is_a_checkpoint]
        ELSE IF m[Keys(m)[it]] = h
        THEN [ret |-> TRUE, is_a_checkpoint |-> is_a_checkpoint]
        ELSE [ret |-> FALSE, is_a_checkpoint |-> is_a_checkpoint]

\* checkpoints::check_block(height, h)
CheckBlock2(m, height, h) == CheckBlock(m, height, h).ret

\* is_alternative_block_allowed with <= for <.
IsAlternativeBlockAllowedAtPin(m, blockchain_height, block_height) ==
    IF 0 = block_height THEN FALSE
    ELSE LET it == map_upper_bound(m, blockchain_height)
         IN  IF it = map_begin(m) THEN TRUE
             ELSE LET checkpoint_height == Keys(m)[it - 1]
                  IN  checkpoint_height <= block_height

\* checkpoints::is_alternative_block_allowed
IsAlternativeBlockAllowed(m, blockchain_height, block_height) ==
    IF 0 = block_height THEN FALSE
    ELSE LET it == map_upper_bound(m, blockchain_height)
         IN  IF it = map_begin(m) THEN TRUE
             ELSE LET checkpoint_height == Keys(m)[it - 1]
                  IN  checkpoint_height < block_height

\* What reading (end())->first of an empty map can yield: the read is of
\* memory that holds no element, so any uint64_t; three of them stand for all.
EndNodeReads == {0, 25417, HEIGHT_MAX}

\* checkpoints::get_max_height: the values it can return, and whether it
\* dereferenced end() to get them.
GetMaxHeight(m) ==
    LET highest == max_element(m)
    IN  IF highest = map_end(m)
        THEN [deref_end |-> TRUE, values |-> EndNodeReads]
        ELSE [deref_end |-> FALSE, values |-> {Keys(m)[highest]}]

\* check_for_conflicts reading this store with operator[] and no count()
\* test: a height the store lacks is default-inserted, and then differs.
RECURSIVE ConflictScanInserting(_, _, _)
ConflictScanInserting(m, other, i) ==
    IF i > Len(Keys(other))
    THEN [ret |-> TRUE, points |-> m, other |-> other]
    ELSE LET pt == Keys(other)[i]
             mm == IF map_count(m, pt) # 0 THEN m
                   ELSE map_assign(m, pt, null_hash)
         IN  IF ~(other[pt] = mm[pt])
             THEN [ret |-> FALSE, points |-> mm, other |-> other]
             ELSE ConflictScanInserting(mm, other, i + 1)

CheckForConflictsInserting(m, other) == ConflictScanInserting(m, other, 1)

\* check_for_conflicts returning true from inside the loop, at the first
\* height both stores hold with the same hash.
RECURSIVE ConflictScanFirstShared(_, _, _)
ConflictScanFirstShared(m, other, i) ==
    IF i > Len(Keys(other))
    THEN [ret |-> TRUE, points |-> m, other |-> other]
    ELSE LET pt == Keys(other)[i]
         IN  IF map_count(m, pt) # 0
             THEN [ret |-> other[pt] = m[pt], points |-> m, other |-> other]
             ELSE ConflictScanFirstShared(m, other, i + 1)

CheckForConflictsFirstShared(m, other) == ConflictScanFirstShared(m, other, 1)

\* The loop of check_for_conflicts over other.get_points(), from its i-th
\* entry on.  The method is const and takes other by const reference: it
\* returns both stores as it got them.
RECURSIVE ConflictScan(_, _, _)
ConflictScan(m, other, i) ==
    IF i > Len(Keys(other))
    THEN [ret |-> TRUE, points |-> m, other |-> other]
    ELSE LET pt == Keys(other)[i]
         IN  IF map_count(m, pt) # 0 /\ ~(other[pt] = m[pt])
             THEN [ret |-> FALSE, points |-> m, other |-> other]
             ELSE ConflictScan(m, other, i + 1)

\* checkpoints::check_for_conflicts
CheckForConflicts(m, other) == ConflictScan(m, other, 1)

\* The ADD_CHECKPOINT lines of init_default_checkpoints, from line i on.
RECURSIVE AddDefaults(_, _, _)
AddDefaults(m, table, i) ==
    IF i > Len(table) THEN [ret |-> TRUE, points |-> m]
    ELSE LET a == AddCheckpoint(m, table[i].height, table[i].hash)
         IN  IF ~a.ret THEN [ret |-> FALSE, points |-> a.points]
             ELSE AddDefaults(a.points, table, i + 1)

\* checkpoints::init_default_checkpoints
InitDefaultCheckpoints(m, nettype) ==
    AddDefaults(m, DefaultCheckpoints(nettype), 1)

\* The loader's test with < for <=.
IgnoreHashlineBelow(height, prev_max_height) == height < prev_max_height

\* The test of the loader's loop: height <= prev_max_height.
IgnoreHashline(height, prev_max_height) == height <= prev_max_height

\* The loader's loop with the threshold following the heights it adds.
RECURSIVE LoadHashlinesRaising(_, _, _, _, _)
LoadHashlinesRaising(m, hashlines, it, prev_max_height, calls) ==
    IF it > Len(hashlines)
    THEN [ret |-> TRUE, points |-> m, calls |-> calls]
    ELSE LET height == hashlines[it].height
         IN  IF height <= prev_max_height
             THEN LoadHashlinesRaising(m, hashlines, it + 1, prev_max_height,
                                       calls)
             ELSE LET blockhash == hashlines[it].hash
                      a == AddCheckpoint(m, height, blockhash)
                      c == Append(calls, [it |-> it, ret |-> a.ret])
                  IN  IF ~a.ret
                      THEN [ret |-> FALSE, points |-> a.points, calls |-> c]
                      ELSE LoadHashlinesRaising(a.points, hashlines, it + 1,
                                                height, c)

\* The loader's loop going on after an add that failed, and failing at the
\* end.
RECURSIVE LoadHashlinesContinuing(_, _, _, _, _)
LoadHashlinesContinuing(m, hashlines, it, prev_max_height, calls) ==
    IF it > Len(hashlines)
    THEN [ret |-> \A j \in 1..Len(calls) : calls[j].ret,
          points |-> m, calls |-> calls]
    ELSE LET height == hashlines[it].height
         IN  IF height <= prev_max_height
             THEN LoadHashlinesContinuing(m, hashlines, it + 1,
                                          prev_max_height, calls)
             ELSE LET blockhash == hashlines[it].hash
                      a == AddCheckpoint(m, height, blockhash)
                      c == Append(calls, [it |-> it, ret |-> a.ret])
                  IN  LoadHashlinesContinuing(a.points, hashlines, it + 1,
                                              prev_max_height, c)

\* The loop of load_checkpoints_from_json over hashes.hashlines, from
\* position it on; calls lists the add_checkpoint calls made so far.
RECURSIVE LoadHashlines(_, _, _, _, _)
LoadHashlines(m, hashlines, it, prev_max_height, calls) ==
    IF it > Len(hashlines)
    THEN [ret |-> TRUE, points |-> m, calls |-> calls]
    ELSE LET height == hashlines[it].height
         IN  IF IgnoreHashline(height, prev_max_height)
             THEN LoadHashlines(m, hashlines, it + 1, prev_max_height, calls)
             ELSE LET blockhash == hashlines[it].hash
                      a == AddCheckpoint(m, height, blockhash)
                      c == Append(calls, [it |-> it, ret |-> a.ret])
                  IN  IF ~a.ret
                      THEN [ret |-> FALSE, points |-> a.points, calls |-> c]
                      ELSE LoadHashlines(a.points, hashlines, it + 1,
                                         prev_max_height, c)

\* The loader without the return on a file that does not load.
LoadCheckpointsFromJsonUnchecked(m, json, prev_max_height) ==
    IF ~json.exists
    THEN [ret |-> TRUE, points |-> m, calls |-> <<>>]
    ELSE LoadHashlines(m, json.hashlines, 1, prev_max_height, <<>>)

\* The loader without the test that the file exists.
LoadCheckpointsFromJsonNoExists(m, json, prev_max_height) ==
    IF ~json.loads
    THEN [ret |-> FALSE, points |-> m, calls |-> <<>>]
    ELSE LoadHashlines(m, json.hashlines, 1, prev_max_height, <<>>)

\* checkpoints::load_checkpoints_from_json.  json is the file as the
\* collaborators see it: whether boost::filesystem::exists finds it, whether
\* load_t_from_json_file loads it, and the hashlines it then holds.
\* prev_max_height is what get_max_height returned (read only if the file
\* exists).
LoadCheckpointsFromJson(m, json, prev_max_height) ==
    IF ~json.exists
    THEN [ret |-> TRUE, points |-> m, calls |-> <<>>]
    ELSE IF ~json.loads
    THEN [ret |-> FALSE, points |-> m, calls |-> <<>>]
    ELSE LoadHashlines(m, json.hashlines, 1, prev_max_height, <<>>)

\* checkpoints::load_checkpoints_from_dns
LoadCheckpointsFromDns(nettype) == TRUE

\* load_new_checkpoints with = for &=: the stub's result replaces the
\* loader's.
LoadNewCheckpointsAssign(m, json, nettype, dns, prev_max_height) ==
    LET loaded == LoadCheckpointsFromJson(m, json, prev_max_height)
        result == IF dns
                  THEN LoadCheckpointsFromDns(nettype)
                  ELSE loaded.ret
    IN  [ret |-> result, points |-> loaded.points, calls |-> loaded.calls,
         steps |-> IF dns THEN <<"json", "dns">> ELSE <<"json">>]

\* checkpoints::load_new_checkpoints; steps lists the loaders it ran.
LoadNewCheckpoints(m, json, nettype, dns, prev_max_height) ==
    LET loaded == LoadCheckpointsFromJson(m, json, prev_max_height)
        result == IF dns
                  THEN loaded.ret /\ LoadCheckpointsFromDns(nettype)
                  ELSE loaded.ret
    IN  [ret |-> result, points |-> loaded.points, calls |-> loaded.calls,
         steps |-> IF dns THEN <<"json", "dns">> ELSE <<"json">>]

-----------------------------------------------------------------------------
(* The inputs the calls are made with. *)

\* Heights given to add_checkpoint and found in documents.
Heights == {0, 25416, 25417, 25418}

\* Heights the queries are asked about.
QueryHeights == Heights \cup {1, 25419, HEIGHT_MAX}

TextA == MainnetCheckpoints[22].hash
TextB == MainnetCheckpoints[1].hash

ToUpper(c) ==
    IF \E i \in 1..16 : LowerHex[i] = c
    THEN UpperHex[CHOOSE i \in 1..16 : LowerHex[i] = c]
    ELSE c

\* TextA in capitals: another spelling of the same hash.
TextAUpper == [i \in 1..Len(TextA) |-> ToUpper(TextA[i])]
\* One digit short.
TextShort == SubSeq(TextB, 1, Len(TextB) - 1)
\* Right length, one character that is no hex digit.
TextBad == [TextB EXCEPT ![7] = "g"]

Texts == {TextA, TextAUpper, TextB, TextShort, TextBad}
DocTexts == {TextA, TextB, TextBad}
DocHeights == {25417, 25418}

HashA == hex_to_pod(TextA).h
HashB == hex_to_pod(TextB).h
Hashes == {HashA, HashB, null_hash}

Hashlines == [height : DocHeights, hash : DocTexts]

RECURSIVE SeqsUpTo(_, _)
SeqsUpTo(S, n) ==
    IF n = 0 THEN {<<>>}
    ELSE LET shorter == SeqsUpTo(S, n - 1)
         IN  shorter \cup {Append(s, x) : s \in shorter, x \in S}

\* A checkpoint file as the loader's collaborators report it: exists is
\* boost::filesystem::exists, loads is load_t_from_json_file's result, and
\* hashlines is what that call left in hashes (on a failure, whatever it had
\* filled in before it failed).
NoFile == [exists |-> FALSE, loads |-> FALSE, hashlines |-> <<>>]
BadFiles ==
    {[exists |-> TRUE, loads |-> FALSE, hashlines |-> s] :
       s \in SeqsUpTo(Hashlines, 1)}
GoodFiles ==
    {[exists |-> TRUE, loads |-> TRUE, hashlines |-> s] :
       s \in SeqsUpTo(Hashlines, MaxDocLen)}
Files == {NoFile} \cup BadFiles \cup GoodFiles

\* Stores handed to check_for_conflicts.
OtherStores ==
    {EmptyMap,
     map_assign(EmptyMap, 0, HashB),
     map_assign(EmptyMap, 0, HashA),
     map_assign(map_assign(EmptyMap, 0, HashB), 25418, HashA),
     map_assign(EmptyMap, 25418, HashB),
     map_assign(map_assign(EmptyMap, 25417, HashA), 25418, HashB)}

-----------------------------------------------------------------------------
(* The state machine: one action per public method. *)

Pairs(m) == {<<k, m[k]>> : k \in DOMAIN m}

NoCall ==
    [op |-> "none", height |-> 0, block_height |-> 0, hash_str |-> <<>>,
     h |-> null_hash, nettype |-> "UNDEFINED", json |-> NoFile,
     dns |-> FALSE, other |-> EmptyMap, other_after |-> EmptyMap,
     ret |-> TRUE,
     is_a_checkpoint |-> FALSE, max_height |-> 0, got_max |-> FALSE,
     deref_end |-> FALSE, calls |-> <<>>, pre |-> EmptyMap,
     again |-> FALSE, first_ret |-> TRUE, first_pre |-> EmptyMap,
     steps |-> <<>>]

\* checkpoints::checkpoints(): an empty store.
Init ==
    /\ m_points = EmptyMap
    /\ last = NoCall
    /\ ever = {}

\* The caller has taken the previous call's results and may call again.
Idle == last.op = "none"

\* A call leaves points as the store and rec as its record.
Called(points, rec) ==
    /\ m_points' = points
    /\ last' = [rec EXCEPT !.pre = m_points]
    /\ ever' = ever \cup Pairs(points)

add_checkpoint ==
    /\ Idle
    /\ \E height \in Heights, hash_str \in Texts :
         LET a == AddCheckpoint(m_points, height, hash_str)
         IN  Called(a.points,
                    [NoCall EXCEPT !.op = "add_checkpoint", !.height = height,
                                   !.hash_str = hash_str, !.ret = a.ret])

\* The caller makes the add_checkpoint call it has just made once more, with
\* the same arguments.
add_checkpoint_again ==
    /\ last.op = "add_checkpoint"
    /\ ~last.again
    /\ LET a == AddCheckpoint(m_points, last.height, last.hash_str)
       IN  Called(a.points,
                  [NoCall EXCEPT !.op = "add_checkpoint",
                                 !.height = last.height,
                                 !.hash_str = last.hash_str, !.ret = a.ret,
                                 !.again = TRUE, !.first_ret = last.ret,
                                 !.first_pre = last.pre])

is_in_checkpoint_zone ==
    /\ Idle
    /\ \E height \in QueryHeights :
         Called(m_points,
                [NoCall EXCEPT !.op = "is_in_checkpoint_zone",
                               !.height = height,
                               !.ret = IsInCheckpointZone(m_points, height)])

check_block ==
    /\ Idle
    /\ \E height \in QueryHeights, h \in Hashes :
         LET c == CheckBlock(m_points, height, h)
         IN  Called(m_points,
                    [NoCall EXCEPT !.op = "check_block", !.height = height,
                                   !.h = h, !.ret = c.ret,
                                   !.is_a_checkpoint = c.is_a_checkpoint])

check_block2 ==
    /\ Idle
    /\ \E height \in QueryHeights, h \in Hashes :
         Called(m_points,
                [NoCall EXCEPT !.op = "check_block2", !.height = height,
                               !.h = h,
                               !.ret = CheckBlock2(m_points, height, h)])

is_alternative_block_allowed ==
    /\ Idle
    /\ \E blockchain_height \in QueryHeights, block_height \in QueryHeights :
         Called(m_points,
                [NoCall EXCEPT !.op = "is_alternative_block_allowed",
                               !.height = blockchain_height,
                               !.block_height = block_height,
                               !.ret = IsAlternativeBlockAllowed(
                                         m_points, blockchain_height,
                                         block_height)])

get_max_height ==
    /\ Idle
    /\ LET g == GetMaxHeight(m_points)
       IN  \E v \in g.values :
             Called(m_points,
                    [NoCall EXCEPT !.op = "get_max_height", !.max_height = v,
                                   !.got_max = TRUE,
                                   !.deref_end = g.deref_end])

check_for_conflicts ==
    /\ Idle
    /\ \E other \in OtherStores :
         LET c == CheckForConflicts(m_points, other)
         IN  Called(c.points,
                    [NoCall EXCEPT !.op = "check_for_conflicts",
                                   !.other = other, !.other_after = c.other,
                                   !.ret = c.ret])

init_default_checkpoints ==
    /\ Idle
    /\ \E nettype \in Networks :
         LET d == InitDefaultCheckpoints(m_points, nettype)
         IN  Called(d.points,
                    [NoCall EXCEPT !.op = "init_default_checkpoints",
                                   !.nettype = nettype, !.ret = d.ret])

\* The caller makes the init_default_checkpoints call it has just made once
\* more, for the same network.
init_default_checkpoints_again ==
    /\ last.op = "init_default_checkpoints"
    /\ ~last.again
    /\ LET d == InitDefaultCheckpoints(m_points, last.nettype)
       IN  Called(d.points,
                  [NoCall EXCEPT !.op = "init_default_checkpoints",
                                 !.nettype = last.nettype, !.ret = d.ret,
                                 !.again = TRUE, !.first_ret = last.ret,
                                 !.first_pre = last.pre])

load_checkpoints_from_json ==
    /\ Idle
    /\ \E json \in Files :
         LET g == GetMaxHeight(m_points)
         IN  \E prev_max_height \in (IF json.exists THEN g.values ELSE {0}) :
               LET l == LoadCheckpointsFromJson(m_points, json, prev_max_height)
               IN  Called(l.points,
                          [NoCall EXCEPT !.op = "load_checkpoints_from_json",
                                         !.json = json, !.ret = l.ret,
                                         !.calls = l.calls,
                                         !.max_height = prev_max_height,
                                         !.got_max = json.exists,
                                         !.deref_end =
                                             json.exists /\ g.deref_end])

load_checkpoints_from_dns ==
    /\ Idle
    /\ \E nettype \in Networks :
         Called(m_points,
                [NoCall EXCEPT !.op = "load_checkpoints_from_dns",
                               !.nettype = nettype,
                               !.ret = LoadCheckpointsFromDns(nettype)])

load_new_checkpoints ==
    /\ Idle
    /\ \E json \in Files, nettype \in Networks, dns \in BOOLEAN :
         LET g == GetMaxHeight(m_points)
         IN  \E prev_max_height \in (IF json.exists THEN g.values ELSE {0}) :
               LET l == LoadNewCheckpoints(m_points, json, nettype, dns,
                                           prev_max_height)
               IN  Called(l.points,
                          [NoCall EXCEPT !.op = "load_new_checkpoints",
                                         !.json = json, !.nettype = nettype,
                                         !.dns = dns, !.ret = l.ret,
                                         !.calls = l.calls,
                                         !.steps = l.steps,
                                         !.max_height = prev_max_height,
                                         !.got_max = json.exists,
                                         !.deref_end =
                                             json.exists /\ g.deref_end])

\* The caller takes the results of the call and is ready for the next one.
returned ==
    /\ last.op # "none"
    /\ last' = NoCall
    /\ UNCHANGED <<m_points, ever>>

Next ==
    \/ add_checkpoint
    \/ add_checkpoint_again
    \/ is_in_checkpoint_zone
    \/ check_block
    \/ check_block2
    \/ is_alternative_block_allowed
    \/ get_max_height
    \/ check_for_conflicts
    \/ init_default_checkpoints
    \/ init_default_checkpoints_again
    \/ load_checkpoints_from_json
    \/ load_checkpoints_from_dns
    \/ load_new_checkpoints
    \/ returned

Spec == Init /\ [][Next]_vars

-----------------------------------------------------------------------------
(* What the claims are stated with: the store as a set of heights, with no *)
(* reference to the map's iteration.                                       *)

\* The greatest key of a non-empty store.
MaxKey(m) == CHOOSE k \in DOMAIN m : \A j \in DOMAIN m : j <= k

\* Every entry of pre is in post, with the same hash.
Extends(pre, post) ==
    \A k \in DOMAIN pre : k \in DOMAIN post /\ post[k] = pre[k]

\* The last call was load_checkpoints_from_json on a file that exists and
\* loads.
LoadedFile ==
    /\ last.op = "load_checkpoints_from_json"
    /\ last.json.exists
    /\ last.json.loads

Lines == last.json.hashlines

\* The positions of the document whose height is above threshold T.
Above(T) == {i \in 1..Len(Lines) : Lines[i].height > T}

\* The positions of the document that were passed to add_checkpoint.
CalledIts == {last.calls[j].it : j \in 1..Len(last.calls)}

\* Position i is above T and cannot be added after the ones before it: its
\* text does not decode, or an earlier line above T gave its height another
\* hash.
BadLine(T, i) ==
    /\ i \in Above(T)
    /\ \/ ~hex_to_pod(Lines[i].hash).r
       \/ \E j \in Above(T) :
            /\ j < i
            /\ Lines[j].height = Lines[i].height
            /\ hex_to_pod(Lines[j].hash).r
            /\ hex_to_pod(Lines[j].hash).h # hex_to_pod(Lines[i].hash).h

\* The threshold the loader compared with: the store's greatest height, or
\* on an empty store whatever get_max_height yielded.
Threshold ==
    IF DOMAIN last.pre = {} THEN last.max_height ELSE MaxKey(last.pre)

-----------------------------------------------------------------------------
(* C1 *)

\* The last call was add_checkpoint(h, hash2) with hash2 well formed, on a
\* store holding another hash at h.
ConflictingAdd ==
    /\ last.op = "add_checkpoint"
    /\ hex_to_pod(last.hash_str).r
    /\ last.height \in DOMAIN last.pre
    /\ hex_to_pod(last.hash_str).h # last.pre[last.height]

\* C1: add_checkpoint(h, hash2) on a store that holds hash1 # hash2 at h
\* returns false and leaves the store as it was; and no height has ever been
\* associated with two different hashes.
C1_ConflictingAddRejected ==
    /\ ConflictingAdd => (last.ret = FALSE /\ m_points = last.pre)
    /\ \A p \in ever, q \in ever : p[1] = q[1] => p[2] = q[2]

\* C1 witness: a conflicting add was made and refused.
C1_Witness == ConflictingAdd /\ ~last.ret /\ m_points = last.pre

-----------------------------------------------------------------------------
(* C2 *)

\* C2: check_block accepts iff the store has no entry at height or has the
\* given hash there, reports is_a_checkpoint iff it has an entry there, in
\* both forms, and leaves the store alone.
C2_CheckBlock ==
    /\ last.op \in {"check_block", "check_block2"} =>
         /\ m_points = last.pre
         /\ last.ret = (\/ last.height \notin DOMAIN last.pre
                        \/ last.pre[last.height] = last.h)
    /\ last.op = "check_block" =>
         last.is_a_checkpoint = (last.height \in DOMAIN last.pre)

\* C2 witness: a block was checked against a pin with another hash, and
\* rejected.
C2_Witness ==
    /\ last.op = "check_block"
    /\ last.height \in DOMAIN last.pre
    /\ last.pre[last.height] # last.h
    /\ last.is_a_checkpoint
    /\ ~last.ret

-----------------------------------------------------------------------------
(* C3 *)

\* The pinned heights at or below the current best height of the last call.
PinsAtOrBelowTip == {k \in DOMAIN last.pre : k <= last.height}

\* C3: is_alternative_block_allowed is false for candidate height 0;
\* otherwise true when no pin is at or below the current best height, and
\* else candidate_height > P for the greatest such pin P.  So it is never
\* true for a candidate at or below a pin at or below the current best height.
C3_AlternativeBlock ==
    last.op = "is_alternative_block_allowed" =>
      /\ last.ret =
           (IF last.block_height = 0 THEN FALSE
            ELSE IF PinsAtOrBelowTip = {} THEN TRUE
            ELSE \A k \in PinsAtOrBelowTip : last.block_height > k)
      /\ last.ret => ~\E k \in PinsAtOrBelowTip : last.block_height <= k

\* C3 witness: a candidate exactly at the nearest pin under the tip, refused.
C3_Witness ==
    /\ last.op = "is_alternative_block_allowed"
    /\ last.block_height # 0
    /\ last.block_height \in PinsAtOrBelowTip
    /\ \A k \in PinsAtOrBelowTip : k <= last.block_height
    /\ ~last.ret

-----------------------------------------------------------------------------
(* C4 *)

\* C4: every step keeps every (height, hash) pair of the store, so the
\* greatest pinned height never decreases.
C4_AppendOnly ==
    [][/\ Extends(m_points, m_points')
       /\ DOMAIN m_points # {} =>
            /\ DOMAIN m_points' # {}
            /\ MaxKey(m_points') >= MaxKey(m_points)]_vars

\* C4 witness: a load that failed after adding to a non-empty store; what
\* was there is still there.
C4_Witness ==
    /\ last.op \in {"load_checkpoints_from_json", "load_new_checkpoints"}
    /\ ~last.ret
    /\ DOMAIN last.pre # {}
    /\ DOMAIN m_points # DOMAIN last.pre
    /\ Extends(last.pre, m_points)

-----------------------------------------------------------------------------
(* C5 *)

\* C5: is_in_checkpoint_zone(height) is true iff the store is non-empty and
\* height is at most its greatest height: false on an empty store, true at
\* the greatest height H and false at H + 1.
C5_CheckpointZone ==
    last.op = "is_in_checkpoint_zone" =>
      /\ last.ret = (/\ DOMAIN last.pre # {}
                     /\ last.height <= MaxKey(last.pre))
      /\ DOMAIN last.pre = {} => ~last.ret
      /\ DOMAIN last.pre # {} =>
           /\ last.height = MaxKey(last.pre) => last.ret
           /\ last.height = MaxKey(last.pre) + 1 => ~last.ret

\* C5 witness: asked about the height just above the greatest pin: outside.
C5_Witness ==
    /\ last.op = "is_in_checkpoint_zone"
    /\ DOMAIN last.pre # {}
    /\ last.height = MaxKey(last.pre) + 1
    /\ ~last.ret

-----------------------------------------------------------------------------
(* C6 *)

\* What C6 says of the lines at or below the pre-call maximum T, and of the
\* order of the calls: the threshold is T, the calls are in document order,
\* no line at or below T is passed to add_checkpoint or changes the store at
\* or below T, and a document of such lines only succeeds with no effect.
SkipsAtOrBelow(T) ==
    /\ last.max_height = T
    /\ \A j \in 1..(Len(last.calls) - 1) :
         last.calls[j].it < last.calls[j + 1].it
    /\ \A i \in 1..Len(Lines) : Lines[i].height <= T => i \notin CalledIts
    /\ \A k \in DOMAIN m_points :
         k <= T => k \in DOMAIN last.pre /\ m_points[k] = last.pre[k]
    /\ Above(T) = {} => (last.ret /\ m_points = last.pre)

\* C6 as stated: on a file that loads, every line with height at or below
\* the pre-call maximum is skipped, and every line above it is passed to
\* add_checkpoint.
C6_EveryHigherLinePassed ==
    (LoadedFile /\ DOMAIN last.pre # {}) =>
      /\ SkipsAtOrBelow(MaxKey(last.pre))
      /\ \A i \in Above(MaxKey(last.pre)) : i \in CalledIts

\* C6 amended: on a file that loads, the lines are compared with the
\* threshold read before the loop (the store's pre-call maximum; on an empty
\* store whatever get_max_height yielded): every line at or below it is
\* skipped, and the lines above it are passed to add_checkpoint in document
\* order up to and including the first whose add fails; the lines after that
\* one are not processed.
C6_HigherLinesPassedUntilFailure ==
    LoadedFile =>
      /\ SkipsAtOrBelow(Threshold)
      /\ \A i \in Above(Threshold) :
           i \in CalledIts <=>
             \A j \in Above(Threshold) : j < i => ~BadLine(Threshold, j)

\* C6 witness: the first line, above the pre-call maximum, was added; the
\* second, malformed and at or below the pre-call maximum, was skipped; the
\* load succeeded.
C6_Witness ==
    /\ LoadedFile
    /\ DOMAIN last.pre # {}
    /\ Len(Lines) = 2
    /\ Lines[1].height > MaxKey(last.pre)
    /\ Lines[2].height <= MaxKey(last.pre)
    /\ ~hex_to_pod(Lines[2].hash).r
    /\ CalledIts = {1}
    /\ last.ret

\* A second case of C6: a line was added, and then a lower line, still above
\* the pre-call maximum, was added too.
C6_ThresholdNotRaised ==
    /\ LoadedFile
    /\ DOMAIN last.pre # {}
    /\ Len(Lines) = 2
    /\ Lines[2].height < Lines[1].height
    /\ CalledIts = {1, 2}
    /\ last.ret

-----------------------------------------------------------------------------
(* C7 *)

\* The last call loaded a document with a line at the store's greatest
\* height whose hash is not the one stored there.
LineAtMaxDiffers ==
    /\ LoadedFile
    /\ DOMAIN last.pre # {}
    /\ \E i \in 1..Len(Lines) :
         /\ Lines[i].height = MaxKey(last.pre)
         /\ hex_to_pod(Lines[i].hash).r
         /\ hex_to_pod(Lines[i].hash).h # last.pre[MaxKey(last.pre)]

\* C7 as stated: loading a document with a line at the store's greatest
\* height and another hash than the stored one fails.
C7_LineAtMaxConflicts == LineAtMaxDiffers => ~last.ret

\* C7 amended: such a line is skipped: it is not passed to add_checkpoint,
\* the stored hash stays, and the load fails only if a line above the
\* pre-call maximum cannot be added.
C7_LineAtMaxSkipped ==
    LineAtMaxDiffers =>
      /\ \A i \in 1..Len(Lines) :
           Lines[i].height = MaxKey(last.pre) => i \notin CalledIts
      /\ m_points[MaxKey(last.pre)] = last.pre[MaxKey(last.pre)]
      /\ last.ret = ~\E i \in 1..Len(Lines) : BadLine(MaxKey(last.pre), i)

\* C7 witness: such a document was loaded, and the load succeeded.
C7_Witness == LineAtMaxDiffers /\ last.ret /\ m_points = last.pre

-----------------------------------------------------------------------------
(* C8 *)

\* C8: get_max_height yields the greatest pinned height of a non-empty store
\* and, on an empty store, a defined result: no call dereferences end().
C8_MaxHeightDefined ==
    last.got_max =>
      IF DOMAIN last.pre = {} THEN ~last.deref_end
      ELSE last.max_height = MaxKey(last.pre)

-----------------------------------------------------------------------------
(* C9 *)

\* The first position of the document that cannot be added.
FirstBadLine ==
    CHOOSE f \in 1..Len(Lines) :
      /\ BadLine(Threshold, f)
      /\ \A i \in 1..(f - 1) : ~BadLine(Threshold, i)

\* C9: when a line above the threshold cannot be added, the loader returns
\* false at that line: the lines above the threshold before it are in the
\* store, nothing after it is, and what the store held is unchanged.
C9_LoaderStopsAtFailure ==
    (LoadedFile /\ \E i \in 1..Len(Lines) : BadLine(Threshold, i)) =>
      /\ ~last.ret
      /\ last.calls[Len(last.calls)].it = FirstBadLine
      /\ Extends(last.pre, m_points)
      /\ DOMAIN m_points =
           DOMAIN last.pre
             \cup {Lines[j].height : j \in {i \in Above(Threshold) :
                                               i < FirstBadLine}}
      /\ \A j \in Above(Threshold) :
           j < FirstBadLine =>
             m_points[Lines[j].height] = hex_to_pod(Lines[j].hash).h

\* C9 witness: on a non-empty store the first line was added and the second,
\* giving the same height another hash, failed.
C9_Witness ==
    /\ LoadedFile
    /\ DOMAIN last.pre # {}
    /\ Len(Lines) = 2
    /\ Lines[1].height = Lines[2].height
    /\ hex_to_pod(Lines[2].hash).r
    /\ ~BadLine(Threshold, 1)
    /\ BadLine(Threshold, 2)
    /\ ~last.ret
    /\ Lines[1].height \in DOMAIN m_points \ DOMAIN last.pre

-----------------------------------------------------------------------------
(* C10 *)

\* The last call was load_checkpoints_from_json on a file that exists and
\* does not load.
UnloadableFile ==
    /\ last.op = "load_checkpoints_from_json"
    /\ last.json.exists
    /\ ~last.json.loads

\* C10: on a file that exists and cannot be loaded, the loader returns false
\* and the store is as it was.
C10_UnloadableFileRejected ==
    UnloadableFile => (~last.ret /\ m_points = last.pre)

\* C10 witness: such a load on a non-empty store, with a line read before
\* the failure that the store does not hold.
C10_Witness ==
    /\ UnloadableFile
    /\ DOMAIN last.pre # {}
    /\ Len(Lines) = 1
    /\ Lines[1].height \notin DOMAIN last.pre
    /\ Lines[1].height > MaxKey(last.pre)
    /\ hex_to_pod(Lines[1].hash).r
    /\ ~last.ret

-----------------------------------------------------------------------------
(* C11 *)

\* The last call was load_checkpoints_from_json on a path where no file is.
MissingFile ==
    /\ last.op = "load_checkpoints_from_json"
    /\ ~last.json.exists

\* C11: when no file exists at the path, load_checkpoints_from_json returns
\* true and leaves the store as it was, on every store, the empty one
\* included (get_max_height is not reached).
C11_MissingFileTolerated ==
    MissingFile => (last.ret /\ m_points = last.pre /\ ~last.deref_end)

\* C11 witness: such a load on the empty store.
C11_Witness ==
    MissingFile /\ DOMAIN last.pre = {} /\ last.ret /\ DOMAIN m_points = {}

\* A second case of C11: such a load on a non-empty store.
C11_OnNonEmptyStore ==
    MissingFile /\ DOMAIN last.pre # {} /\ last.ret /\ m_points = last.pre

-----------------------------------------------------------------------------
(* C12 *)

\* The heights both stores of the last check_for_conflicts hold, with
\* different hashes.
ClashingHeights ==
    {k \in DOMAIN last.pre \cap DOMAIN last.other :
       last.pre[k] # last.other[k]}

\* C12: check_for_conflicts(other) returns true iff no height is in both
\* stores with different hashes, and leaves both stores as they were.
C12_CheckForConflicts ==
    last.op = "check_for_conflicts" =>
      /\ last.ret = (ClashingHeights = {})
      /\ m_points = last.pre
      /\ last.other_after = last.other

\* C12 witness: the other store agrees on one height, clashes on another,
\* and this store has a height of its own: refused, nothing changed.
C12_Witness ==
    /\ last.op = "check_for_conflicts"
    /\ ClashingHeights # {}
    /\ \E k \in DOMAIN last.pre \cap DOMAIN last.other :
         last.pre[k] = last.other[k]
    /\ DOMAIN last.pre \ DOMAIN last.other # {}
    /\ ~last.ret
    /\ m_points = last.pre

\* A second case of C12: a height only the other store holds, and no clash:
\* accepted.
C12_OnlyInOther ==
    /\ last.op = "check_for_conflicts"
    /\ DOMAIN last.other \ DOMAIN last.pre # {}
    /\ DOMAIN last.pre \cap DOMAIN last.other # {}
    /\ last.ret

-----------------------------------------------------------------------------
(* C13 *)

\* The characters of a well-formed hash string.
HexChars ==
    {"0", "1", "2", "3", "4", "5", "6", "7", "8", "9",
     "a", "b", "c", "d", "e", "f", "A", "B", "C", "D", "E", "F"}

\* A hash string that spells HASH_SIZE bytes: twice as many hex digits.
WellFormed(hash_str) ==
    /\ Len(hash_str) = 2 * HASH_SIZE
    /\ \A i \in 1..Len(hash_str) : hash_str[i] \in HexChars

\* The last call was the second of two add_checkpoint calls in a row with
\* the same height and the same well-formed hash string.
AddedTwice ==
    /\ last.op = "add_checkpoint"
    /\ last.again
    /\ WellFormed(last.hash_str)

\* The store held no other hash at the height before the first of the two.
NoOtherHashBefore ==
    \/ last.height \notin DOMAIN last.first_pre
    \/ last.first_pre[last.height] = hex_to_pod(last.hash_str).h

-----------------------------------------------------------------------------
(* C14 *)

\* The last call was add_checkpoint with a hash string of the wrong length
\* or with a character that is no hex digit.
MalformedAdd ==
    /\ last.op = "add_checkpoint"
    /\ ~WellFormed(last.hash_str)

\* C14: add_checkpoint with a hash string that does not spell exactly
\* HASH_SIZE bytes returns false and leaves the store as it was, whether or
\* not it holds the height; every hash the store ever held has HASH_SIZE
\* bytes and was spelled by a well-formed string given to the store.
C14_MalformedHashRejected ==
    /\ MalformedAdd => (~last.ret /\ m_points = last.pre)
    /\ \A p \in ever :
         /\ Len(p[2]) = HASH_SIZE
         /\ \E t \in Texts \cup {MainnetCheckpoints[i].hash :
                                   i \in 1..Len(MainnetCheckpoints)} :
              WellFormed(t) /\ hex_to_pod(t).h = p[2]

\* C14 witness: a string with a non-hex character given for a height the
\* store holds, refused.
C14_Witness ==
    /\ MalformedAdd
    /\ Len(last.hash_str) = 2 * HASH_SIZE
    /\ last.height \in DOMAIN last.pre
    /\ ~last.ret
    /\ m_points = last.pre

\* A second case of C14: a string one digit short given for a height the
\* store does not hold, refused.
C14_WrongLength ==
    /\ MalformedAdd
    /\ Len(last.hash_str) # 2 * HASH_SIZE
    /\ last.height \notin DOMAIN last.pre
    /\ ~last.ret
    /\ m_points = last.pre

-----------------------------------------------------------------------------
(* C15 *)

\* The lines of the document the loader adds: those above the threshold with
\* no line that cannot be added at or before them.
AddedLines ==
    {j \in Above(Threshold) :
       \A i \in Above(Threshold) : i <= j => ~BadLine(Threshold, i)}

\* The store is what it was plus the lines of S.
StoreGrewBy(S) ==
    /\ Extends(last.pre, m_points)
    /\ DOMAIN m_points = DOMAIN last.pre \cup {Lines[j].height : j \in S}
    /\ \A j \in S : m_points[Lines[j].height] = hex_to_pod(Lines[j].hash).h

\* C15: load_new_checkpoints runs the document loader, and the stub only if
\* dns is set; for both values of dns its result and the store it leaves are
\* those of load_checkpoints_from_json alone; when it fails, the lines the
\* loader had added stay.
C15_LoadNewCheckpoints ==
    last.op = "load_new_checkpoints" =>
      LET alone == LoadCheckpointsFromJson(last.pre, last.json,
                                           last.max_height)
      IN  /\ last.steps = (IF last.dns THEN <<"json", "dns">>
                           ELSE <<"json">>)
          /\ last.ret = alone.ret
          /\ m_points = alone.points
          /\ last.ret = (\/ ~last.json.exists
                         \/ /\ last.json.loads
                            /\ \A i \in 1..Len(Lines) :
                                 ~BadLine(Threshold, i))
          /\ StoreGrewBy(IF last.json.exists /\ last.json.loads
                         THEN AddedLines ELSE {})

\* C15 witness: with dns set, the loader added a line and failed on the
\* next; the call failed and the line stayed.
C15_Witness ==
    /\ last.op = "load_new_checkpoints"
    /\ last.dns
    /\ last.steps = <<"json", "dns">>
    /\ ~last.ret
    /\ AddedLines # {}
    /\ DOMAIN m_points # DOMAIN last.pre

\* A second case of C15: without dns, only the loader ran, and succeeded.
C15_WithoutDns ==
    /\ last.op = "load_new_checkpoints"
    /\ ~last.dns
    /\ last.steps = <<"json">>
    /\ last.ret
    /\ AddedLines # {}

-----------------------------------------------------------------------------
(* C16 *)

\* The store init_default_checkpoints(MAINNET) builds from nothing.
MainnetStore ==
    [k \in {MainnetCheckpoints[i].height : i \in 1..Len(MainnetCheckpoints)}
       |-> hex_to_pod(
             MainnetCheckpoints[
               CHOOSE i \in 1..Len(MainnetCheckpoints) :
                 MainnetCheckpoints[i].height = k].hash).h]

\* C16: init_default_checkpoints adds entries for MAINNET only: for any other
\* network it returns true and leaves the store as it was.  On an empty
\* store, applying it and applying it again for the same network succeeds
\* both times, and the second application changes nothing.
C16_InitDefaultCheckpoints ==
    last.op = "init_default_checkpoints" =>
      /\ last.nettype # "MAINNET" => (last.ret /\ m_points = last.pre)
      /\ (last.nettype = "MAINNET" /\ DOMAIN last.pre = {}) =>
           (last.ret /\ m_points = MainnetStore)
      /\ (last.again /\ DOMAIN last.first_pre = {}) =>
           (last.first_ret /\ last.ret /\ m_points = last.pre)

\* C16 witness: MAINNET applied to an empty store and then again: the second
\* application succeeded on the full table and changed nothing.
C16_Witness ==
    /\ last.op = "init_default_checkpoints"
    /\ last.again
    /\ last.nettype = "MAINNET"
    /\ DOMAIN last.first_pre = {}
    /\ last.first_ret
    /\ last.ret
    /\ Cardinality(DOMAIN m_points) = Len(MainnetCheckpoints)
    /\ m_points = last.pre

-----------------------------------------------------------------------------
(* C17 *)

\* Every rejection store m gives, store n gives too.
RejectionsKept(m, n) ==
    /\ \A blockchain_height \in QueryHeights, block_height \in QueryHeights :
         ~IsAlternativeBlockAllowed(m, blockchain_height, block_height)
           => ~IsAlternativeBlockAllowed(n, blockchain_height, block_height)
    /\ \A height \in QueryHeights, h \in Hashes :
         ~CheckBlock(m, height, h).ret => ~CheckBlock(n, height, h).ret

\* C17: no step that changes the store turns a rejection into an acceptance:
\* whatever is_alternative_block_allowed or check_block rejected before the
\* step, it rejects after it, so a rejection lasts through any sequence of
\* add_checkpoint, init_default_checkpoints and load operations.
C17_RejectionsNeverRevert ==
    [][m_points' # m_points => RejectionsKept(m_points, m_points')]_vars

\* C17 witness: a store operation grew a store that already rejected a block
\* hash and an alternative block; both are still rejected, and a block that
\* was accepted before is rejected now.
C17_Witness ==
    /\ last.op \in {"add_checkpoint", "init_default_checkpoints",
                    "load_checkpoints_from_json", "load_new_checkpoints"}
    /\ m_points # last.pre
    /\ \E height \in QueryHeights, h \in Hashes :
         /\ ~CheckBlock(last.pre, height, h).ret
         /\ ~CheckBlock(m_points, height, h).ret
    /\ \E blockchain_height \in QueryHeights, block_height \in QueryHeights :
         /\ block_height # 0
         /\ ~IsAlternativeBlockAllowed(last.pre, blockchain_height,
                                       block_height)
         /\ ~IsAlternativeBlockAllowed(m_points, blockchain_height,
                                       block_height)
    /\ \E height \in QueryHeights, h \in Hashes :
         /\ CheckBlock(last.pre, height, h).ret
         /\ ~CheckBlock(m_points, height, h).ret

\* A second case of C17, over the history: every pair ever stored is still
\* stored, so a hash rejected at a pinned height stays rejected.
C17_PinsLast ==
    \A p \in ever : p[1] \in DOMAIN m_points /\ m_points[p[1]] = p[2]

-----------------------------------------------------------------------------
(* C18 *)

\* Every entry of other, from the i-th on, added to m through add_checkpoint,
\* each add tried whatever the ones before it returned: the results in order
\* and the store left.
RECURSIVE AddEvery(_, _, _)
AddEvery(m, other, i) ==
    IF i > Len(Keys(other)) THEN [rets |-> <<>>, points |-> m]
    ELSE LET k == Keys(other)[i]
             a == AddCheckpoint(m, k, pod_to_hex(other[k]))
             rest == AddEvery(a.points, other, i + 1)
         IN  [rets |-> <<a.ret>> \o rest.rets, points |-> rest.points]

\* The entries of both stores; where both have a height, a's.
StoreUnion(a, b) ==
    [k \in DOMAIN a \cup DOMAIN b |-> IF k \in DOMAIN a THEN a[k] ELSE b[k]]

\* C18: check_for_conflicts is symmetric and predicts the merge: A's answer
\* about B is B's answer about A, and it is true iff adding every entry of B
\* to A through add_checkpoint succeeds for every entry, which leaves the
\* union of the two stores; when it is false at least one of the adds fails.
C18_ConflictsPredictMerge ==
    last.op = "check_for_conflicts" =>
      LET merged == AddEvery(last.pre, last.other, 1)
          AllAdded == \A i \in 1..Len(merged.rets) : merged.rets[i]
      IN  /\ last.ret = CheckForConflicts(last.other, last.pre).ret
          /\ last.ret = AllAdded
          /\ last.ret =>
               /\ merged.points = StoreUnion(last.pre, last.other)
               /\ merged.points = StoreUnion(last.other, last.pre)
               /\ AddEvery(last.other, last.pre, 1).points = merged.points
          /\ ~last.ret => \E i \in 1..Len(merged.rets) : ~merged.rets[i]

\* C18 witness: two stores that share a height and have a height each of
\* their own: no conflict, and adding the other's entries gives the union,
\* larger than either.
C18_Witness ==
    /\ last.op = "check_for_conflicts"
    /\ last.ret
    /\ DOMAIN last.pre \cap DOMAIN last.other # {}
    /\ DOMAIN last.pre \ DOMAIN last.other # {}
    /\ DOMAIN last.other \ DOMAIN last.pre # {}
    /\ LET merged == AddEvery(last.pre, last.other, 1)
       IN  /\ Len(merged.rets) = Cardinality(DOMAIN last.other)
           /\ \A i \in 1..Len(merged.rets) : merged.rets[i]
           /\ merged.points = StoreUnion(last.pre, last.other)
           /\ merged.points # last.pre
           /\ merged.points # last.other

\* A second case of C18: the stores clash on one height only; the conflict
\* is reported in both directions, one add fails and another succeeds.
C18_ClashingMerge ==
    /\ last.op = "check_for_conflicts"
    /\ ~last.ret
    /\ ~CheckForConflicts(last.other, last.pre).ret
    /\ LET merged == AddEvery(last.pre, last.other, 1)
       IN  /\ \E i \in 1..Len(merged.rets) : ~merged.rets[i]
           /\ \E i \in 1..Len(merged.rets) : merged.rets[i]

\* The text pod_to_hex gives for a hash decodes to that hash.
C18_HexRoundTrip ==
    \A k \in DOMAIN m_points :
      LET d == hex_to_pod(pod_to_hex(m_points[k]))
      IN  d.r /\ d.h = m_points[k]

=============================================================================
